---- MODULE Spec2Model ----
(***************************************************************************)
(* Model of app.py, the TradeWatch investigation dashboard (Streamlit).    *)
(*                                                                         *)
(* Streamlit executes the whole script top to bottom once per user event   *)
(* (page load, widget click, plain rerun).  One such execution is a render *)
(* pass and is modelled as one action.  State that survives a pass:        *)
(*   - st.session_state (per session),                                     *)
(*   - the module-global NumPy generator behind np.random.* (per process), *)
(*   - the widgets the last pass put on the page (only those can be        *)
(*     clicked next).                                                      *)
(* What the last pass displayed (header, views, sidebar styling, progress, *)
(* generated tables) is kept so that properties of a pass can be stated.   *)
(***************************************************************************)
EXTENDS Integers, Sequences, FiniteSets, TLC

VARIABLES
    steps,            \* INVESTIGATION_STEPS: step name -> [status]
    session_state,    \* st.session_state: key -> value (partial)
    np_random,        \* state of the global NumPy generator
    widgets,          \* keys of the buttons rendered by the last pass
    trigger,          \* event that started the last pass ("none": no pass yet)
    is_active,        \* step name -> is_active computed by the last pass
    progress_percent, \* value given to st.progress by the last pass
    header,           \* step named by st.header in the last pass
    views,            \* render_*_page functions called by the last pass
    tables,           \* data frames built by the last pass
    rng_calls         \* generator calls of the last pass: [fn, before, after]

vars == <<steps, session_state, np_random, widgets, trigger, is_active,
          progress_percent, header, views, tables, rng_calls>>

----------------------------------------------------------------------------
(* Bounds *)

\* The generator's state space is abstracted to a cycle of RngPeriod states.
RngPeriod == 11

----------------------------------------------------------------------------
(* Static data *)

\* Keys of INVESTIGATION_STEPS in dict (insertion) order.
StepOrder == <<"Data Gathering", "Pattern Analysis", "Risk Assessment", "Recommendation">>

StepNames == {StepOrder[i] : i \in 1..Len(StepOrder)}

Statuses == {"Completed", "In Progress", "Pending"}

INVESTIGATION_STEPS ==
    [s \in StepNames |->
        [status |-> CASE s = "Data Gathering"   -> "Completed"
                      [] s = "Pattern Analysis" -> "Completed"
                      [] s = "Risk Assessment"  -> "In Progress"
                      [] s = "Recommendation"   -> "Pending"]]

\* key=f"step_btn_{step_name}"
step_btn(step_name) == "step_btn_" \o step_name

StepButtonKeys == {step_btn(s) : s \in StepNames}

\* Buttons of render_risk_assessment_page and render_recommendation_page.
RiskAssessmentButtons == {"export_details_ra", "export_charts_btn_ra"}
RecommendationButtons == {"web_view_btn", "Override - Create Case", "Accept False Positive"}
OtherButtonKeys == RiskAssessmentButtons \cup RecommendationButtons

EmptyMap == [k \in {} |-> 0]

----------------------------------------------------------------------------
(* NumPy global generator *)

\* np.random.seed(n): the state is a function of the seed alone.
seed(n) == n % RngPeriod

\* n samples from the generator in state rng: the samples are a function of
\* the state, and the state advances by one per sample.
Draw(rng, n) ==
    [values |-> [i \in 1..n |-> (rng + i - 1) % RngPeriod],
     rng    |-> (rng + n) % RngPeriod]

RECURSIVE sum(_, _)
sum(xs, n) == IF n = 0 THEN 0 ELSE xs[n] + sum(xs, n - 1)

\* ndarray.cumsum(): element i is the sum of the first i elements.
cumsum(xs) == [i \in 1..Len(xs) |-> sum(xs, i)]

----------------------------------------------------------------------------
(* Data generators.  Each takes the generator state it finds and returns   *)
(* the data frame together with the generator state it leaves behind.      *)

start_price_default == 185
num_points_default == 30

\* generate_price_data(start_price=185.0, num_points=30)
generate_price_data(rng, start_price, num_points) ==
    LET dates  == [i \in 1..num_points |-> i]
        normal == Draw(rng, num_points)
        sums   == cumsum(normal.values)
        prices == [i \in 1..num_points |-> start_price + sums[i]]
        df     == [Time |-> dates, Price |-> prices]
    IN  \* df.set_index('Time'): Time becomes the index, Price stays a column
        [df        |-> [index |-> "Time", index_values |-> df.Time,
                        data  |-> [c \in {"Price"} |-> df.Price]],
         np_random |-> normal.rng]

\* Variant: the frame is built from one metric fewer than the four declared.
generate_liquidity_data_short(rng) ==
    LET metrics == <<"Bid-Ask Spread", "Depth of Market", "Order Imbalance">>
        uniform == Draw(rng, Len(metrics))
    IN  [df        |-> [index |-> "RangeIndex", index_values |-> [i \in 1..Len(metrics) |-> i - 1],
                        data  |-> [c \in {"Metric", "Value"} |->
                                     IF c = "Metric" THEN metrics ELSE uniform.values]],
         np_random |-> uniform.rng]

\* generate_liquidity_data()
generate_liquidity_data(rng) ==
    LET metrics == <<"Bid-Ask Spread", "Depth of Market", "Order Imbalance", "Execution Time">>
        uniform == Draw(rng, Len(metrics))
    IN  [df        |-> [index |-> "RangeIndex", index_values |-> [i \in 1..Len(metrics) |-> i - 1],
                        data  |-> [c \in {"Metric", "Value"} |->
                                     IF c = "Metric" THEN metrics ELSE uniform.values]],
         np_random |-> uniform.rng]

\* generate_alerts_data(): reseeds the global generator, then draws 4 x 20.
generate_alerts_data(rng) ==
    LET seeded == seed(42)
        sev    == Draw(seeded, 20)
        freq   == Draw(sev.rng, 20)
        type   == Draw(freq.rng, 20)
        vol    == Draw(type.rng, 20)
    IN  [df        |-> [index |-> "RangeIndex", index_values |-> [i \in 1..20 |-> i - 1],
                        data  |-> [c \in {"Severity", "Frequency", "Alert Type", "Volume Impact"} |->
                                     CASE c = "Severity"      -> sev.values
                                       [] c = "Frequency"     -> freq.values
                                       [] c = "Alert Type"    -> type.values
                                       [] c = "Volume Impact" -> vol.values]],
         np_random |-> vol.rng]

\* generate_pattern_data(): the scalar baseline is broadcast over the rows.
generate_pattern_data(rng) ==
    LET dates         == [i \in 1..12 |-> i]
        pattern_score == Draw(rng, 12)
        baseline      == 75
    IN  [df        |-> [index |-> "RangeIndex", index_values |-> [i \in 1..12 |-> i - 1],
                        data  |-> [c \in {"Month", "Score", "Baseline"} |->
                                     CASE c = "Month"    -> dates
                                       [] c = "Score"    -> pattern_score.values
                                       [] c = "Baseline" -> [i \in 1..Len(dates) |-> baseline]]],
         np_random |-> pattern_score.rng]

\* One entry of rng_calls.
Call(fn, before, after) == [fn |-> fn, before |-> before, after |-> after]

Generators == {"generate_price_data", "generate_liquidity_data",
               "generate_alerts_data", "generate_pattern_data"}

----------------------------------------------------------------------------
(* Pages.  Each returns the buttons it renders, the frames it builds, the  *)
(* generator state it leaves and the generator calls it made.              *)

Page(buttons, frames, rng, calls) ==
    [widgets |-> buttons, tables |-> frames, np_random |-> rng, rng_calls |-> calls]

\* render_risk_assessment_page(): st.tabs runs the body of every tab.
render_risk_assessment_page(rng) ==
    LET price     == generate_price_data(rng, start_price_default, num_points_default)
        randint   == Draw(price.np_random, 10)
        volume_df == [index |-> "labels", index_values |-> [i \in 1..10 |-> (i - 1) * 5],
                      data  |-> [c \in {"Volume"} |-> randint.values]]
        liquidity == generate_liquidity_data(randint.rng)
        alerts    == generate_alerts_data(liquidity.np_random)
        pattern   == generate_pattern_data(alerts.np_random)
    IN  Page(RiskAssessmentButtons,
             [t \in {"price_df", "volume_df", "liquidity_df", "alerts_df", "pattern_df"} |->
                CASE t = "price_df"     -> price.df
                  [] t = "volume_df"    -> volume_df
                  [] t = "liquidity_df" -> liquidity.df
                  [] t = "alerts_df"    -> alerts.df
                  [] t = "pattern_df"   -> pattern.df],
             pattern.np_random,
             << Call("generate_price_data", rng, price.np_random),
                Call("generate_liquidity_data", randint.rng, liquidity.np_random),
                Call("generate_alerts_data", liquidity.np_random, alerts.np_random),
                Call("generate_pattern_data", alerts.np_random, pattern.np_random) >>)

\* render_recommendation_page()
render_recommendation_page(rng) ==
    Page(RecommendationButtons, EmptyMap, rng, <<>>)

\* render_data_gathering_page()
render_data_gathering_page(rng) ==
    Page({}, EmptyMap, rng, <<>>)

\* render_pattern_analysis_page(): np.random.randn(20, 3).cumsum(axis=0)
render_pattern_analysis_page(rng) ==
    LET randn  == Draw(rng, 20 * 3)
        column(k) == cumsum([r \in 1..20 |-> randn.values[(r - 1) * 3 + k]])
        chart_data == [index |-> "RangeIndex", index_values |-> [i \in 1..20 |-> i - 1],
                       data  |-> [c \in {"Security A", "Security B", "Security C"} |->
                                    CASE c = "Security A" -> column(1)
                                      [] c = "Security B" -> column(2)
                                      [] c = "Security C" -> column(3)]]
    IN  Page({}, [t \in {"chart_data"} |-> chart_data], randn.rng, <<>>)
----------------------------------------------------------------------------
(* The script body *)

CURRENT == "current_step"

\* Variant: the start page is the first step of the timeline.
init_session_state_first(ss) ==
    IF CURRENT \notin DOMAIN ss
    THEN (CURRENT :> "Data Gathering") @@ ss
    ELSE ss

\* Variant: the start page is assigned on every pass.
init_session_state_always(ss) ==
    (CURRENT :> "Risk Assessment") @@ ss

\* if 'current_step' not in st.session_state: ... = "Risk Assessment"
init_session_state(ss) ==
    IF CURRENT \notin DOMAIN ss
    THEN (CURRENT :> "Risk Assessment") @@ ss
    ELSE ss

\* Variant: the click is stored under another key.
render_timeline_step_wrong_key(ss, step_name, clicked) ==
    [is_active     |-> ss[CURRENT] = step_name,
     session_state |-> IF clicked = step_btn(step_name)
                       THEN ("step" :> step_name) @@ ss
                       ELSE ss]

\* Variant: the last step is final, clicks are ignored once it is current.
render_timeline_step_final(ss, step_name, clicked) ==
    [is_active     |-> ss[CURRENT] = step_name,
     session_state |-> IF clicked = step_btn(step_name) /\ ss[CURRENT] # StepOrder[Len(StepOrder)]
                       THEN [ss EXCEPT ![CURRENT] = step_name]
                       ELSE ss]

\* render_timeline_step(step_name, data): is_active is read first, then the
\* button is evaluated (True only in the pass its click started) and the
\* click is stored; the markup below it uses the is_active read before.
render_timeline_step(ss, step_name, clicked) ==
    [is_active     |-> ss[CURRENT] = step_name,
     session_state |-> IF clicked = step_btn(step_name)
                       THEN [ss EXCEPT ![CURRENT] = step_name]
                       ELSE ss]

\* for step, data in INVESTIGATION_STEPS.items(): render_timeline_step(step, data)
\* Renders steps n, n+1, ... in dict order, starting from session state ss
\* and the is_active values `active` of the steps already rendered.
RECURSIVE sidebar_loop(_, _, _, _)
sidebar_loop(ss, active, n, clicked) ==
    IF n > Len(StepOrder) THEN [session_state |-> ss, is_active |-> active]
    ELSE LET this == render_timeline_step(ss, StepOrder[n], clicked)
         IN  sidebar_loop(this.session_state,
                          (StepOrder[n] :> this.is_active) @@ active,
                          n + 1, clicked)

\* Variant: every step that has left Pending counts.
compute_progress_started(investigation_steps) ==
    LET started == SelectSeq(StepOrder, LAMBDA s : investigation_steps[s].status # "Pending")
    IN  (Len(started) * 100) \div Len(StepOrder)

\* Variant: the steps still open are counted.
compute_progress_open(investigation_steps) ==
    LET open == SelectSeq(StepOrder, LAMBDA s : investigation_steps[s].status # "Completed")
    IN  (Len(open) * 100) \div Len(StepOrder)

\* completed_steps = [s for s in ... if s['status'] == 'Completed']
\* progress_percent = int((len(completed_steps) / len(INVESTIGATION_STEPS)) * 100)
\* With four steps the quotient k/4 and its product with 100 are exact in
\* binary floating point, so int() truncates the exact value.
compute_progress(investigation_steps) ==
    LET completed_steps == SelectSeq(StepOrder, LAMBDA s : investigation_steps[s].status = "Completed")
    IN  (Len(completed_steps) * 100) \div Len(StepOrder)

NoPage(rng) == Page({}, EmptyMap, rng, <<>>)

\* Variant: the last branch of the chain is missing.
main_panel_three(ss, rng) ==
    LET current_step == ss[CURRENT]
        page == IF current_step = "Data Gathering" THEN render_data_gathering_page(rng)
                ELSE IF current_step = "Pattern Analysis" THEN render_pattern_analysis_page(rng)
                ELSE IF current_step = "Risk Assessment" THEN render_risk_assessment_page(rng)
                ELSE NoPage(rng)
        called == IF current_step = "Data Gathering" THEN <<"Data Gathering">>
                  ELSE IF current_step = "Pattern Analysis" THEN <<"Pattern Analysis">>
                  ELSE IF current_step = "Risk Assessment" THEN <<"Risk Assessment">>
                  ELSE <<>>
    IN  [header |-> ss[CURRENT], views |-> called, page |-> page]

\* st.header(f"Alert Overview: {st.session_state['current_step']}") and the
\* if/elif chain that calls one render_*_page function.
main_panel(ss, rng) ==
    LET current_step == ss[CURRENT]
        page == IF current_step = "Data Gathering" THEN render_data_gathering_page(rng)
                ELSE IF current_step = "Pattern Analysis" THEN render_pattern_analysis_page(rng)
                ELSE IF current_step = "Risk Assessment" THEN render_risk_assessment_page(rng)
                ELSE IF current_step = "Recommendation" THEN render_recommendation_page(rng)
                ELSE NoPage(rng)
        called == IF current_step = "Data Gathering" THEN <<"Data Gathering">>
                  ELSE IF current_step = "Pattern Analysis" THEN <<"Pattern Analysis">>
                  ELSE IF current_step = "Risk Assessment" THEN <<"Risk Assessment">>
                  ELSE IF current_step = "Recommendation" THEN <<"Recommendation">>
                  ELSE <<>>
    IN  [header |-> ss[CURRENT], views |-> called, page |-> page]

\* The script down to the end of the sidebar loop: session state and
\* is_active values after the four timeline steps were rendered.
sidebar_pass(ss, clicked) ==
    sidebar_loop(init_session_state(ss), EmptyMap, 1, clicked)

\* One execution of the script, started by event `event`; `clicked` is the
\* key of the button whose click started it ("" when none).  The sidebar
\* and the main panel are each computed once and then stored.
ScriptRun(event, clicked) ==
    \E sidebar \in {sidebar_pass(session_state, clicked)} :
    \E main \in {main_panel(sidebar.session_state, np_random)} :
        /\ trigger' = event
        /\ session_state' = sidebar.session_state
        /\ is_active' = sidebar.is_active
        /\ progress_percent' = compute_progress(steps)
        /\ header' = main.header
        /\ views' = main.views
        /\ widgets' = StepButtonKeys \cup main.page.widgets
        /\ tables' = main.page.tables
        /\ np_random' = main.page.np_random
        /\ rng_calls' = main.page.rng_calls
        /\ UNCHANGED steps

----------------------------------------------------------------------------
(* Events *)

\* The browser opens the page: first pass of the session.
FirstRun ==
    /\ trigger = "none"
    /\ ScriptRun("load", "")

\* A click on a timeline button of the sidebar.
ClickStep(s) ==
    /\ step_btn(s) \in widgets
    /\ ScriptRun(step_btn(s), step_btn(s))

\* A click on one of the page buttons; none of them is read by the script.
ClickOther(k) ==
    /\ k \in widgets
    /\ ScriptRun(k, k)

\* Rerun from the menu (no widget changed).
Rerun ==
    /\ trigger # "none"
    /\ ScriptRun("rerun", "")

NewSession(investigation_steps, rng_states) ==
    /\ steps = investigation_steps
    /\ session_state = EmptyMap
    /\ np_random \in rng_states
    /\ widgets = {}
    /\ trigger = "none"
    /\ is_active = EmptyMap
    /\ progress_percent = 0
    /\ header = ""
    /\ views = <<>>
    /\ tables = EmptyMap
    /\ rng_calls = <<>>

\* A new session: nothing rendered yet, the generator seeded from OS entropy.
Init == NewSession(INVESTIGATION_STEPS, 0..(RngPeriod - 1))

Next ==
    \/ FirstRun
    \/ \E s \in StepNames : ClickStep(s)
    \/ \E k \in OtherButtonKeys : ClickOther(k)
    \/ Rerun

Spec == Init /\ [][Next]_vars

\* The same program over every assignment of statuses to the four steps.
InitProgress ==
    \E f \in [StepNames -> Statuses] :
        NewSession([s \in StepNames |-> [status |-> f[s]]], {0})

SpecProgress == InitProgress /\ [][Next]_vars

TypeOK ==
    /\ steps \in [StepNames -> [status : Statuses]]
    /\ DOMAIN session_state \subseteq {CURRENT}
    /\ np_random \in 0..(RngPeriod - 1)
    /\ widgets \subseteq StepButtonKeys \cup OtherButtonKeys
    /\ trigger \in {"none", "load", "rerun"} \cup StepButtonKeys \cup OtherButtonKeys
    /\ progress_percent \in Int
----------------------------------------------------------------------------
(* Properties *)

\* C1: in the pass started by a click on the timeline button of step s, the
\* session state, the header and the view dispatch all read s, the step just
\* selected, whatever was selected before.
C1_SelectionReadBack ==
    \A s \in StepNames :
        trigger = step_btn(s) =>
            /\ CURRENT \in DOMAIN session_state
            /\ session_state[CURRENT] = s
            /\ header = s
            /\ views = <<s>>

\* A selection that moved away from the start page and is read back.
C1_Witness ==
    /\ trigger = step_btn("Data Gathering")
    /\ header = "Data Gathering"
    /\ views = <<"Data Gathering">>

\* C2: the first pass of a session, before any selection, has current step
\* Risk Assessment and displays the Risk Assessment view.
C2_InitialStep ==
    trigger = "load" =>
        /\ CURRENT \in DOMAIN session_state
        /\ session_state[CURRENT] = "Risk Assessment"
        /\ header = "Risk Assessment"
        /\ views = <<"Risk Assessment">>

C2_Witness ==
    /\ trigger = "load"
    /\ views = <<"Risk Assessment">>

\* C3: once the session is initialised, a pass that was not started by a
\* timeline button (a page button or a plain rerun) leaves the session
\* state, and with it the current step, unchanged.
C3_OnlyStepClicksChange ==
    [][ (trigger # "none" /\ trigger' \notin StepButtonKeys)
            => session_state' = session_state ]_vars

\* A plain rerun, and a page button, after another step was selected.
C3_Witness ==
    /\ trigger \in {"rerun", "web_view_btn"}
    /\ CURRENT \in DOMAIN session_state
    /\ session_state[CURRENT] = "Recommendation"

\* C4: once the page is displayed, in every state and for each of the four
\* steps, the timeline button of that step is on the page (its click is
\* enabled) and the pass started by that click ends with that step current.
C4_FullyConnected ==
    trigger # "none" =>
        \A s \in StepNames :
            /\ step_btn(s) \in widgets
            /\ sidebar_pass(session_state, step_btn(s)).session_state[CURRENT] = s

\* The last step is current and was reached by a selection.
C4_Witness ==
    /\ trigger = step_btn("Recommendation")
    /\ session_state[CURRENT] = "Recommendation"

\* C5: the progress shown is the number of Completed steps over the number
\* of steps as a truncated percentage, which is 50 for the fixed steps,
\* whichever step is selected.
C5_ProgressFifty ==
    trigger # "none" =>
        /\ progress_percent =
             (Cardinality({s \in StepNames : steps[s].status = "Completed"}) * 100)
                 \div Cardinality(StepNames)
        /\ progress_percent = 50

C5_Witness ==
    /\ trigger \in StepButtonKeys
    /\ session_state[CURRENT] # "Risk Assessment"
    /\ progress_percent = 50

\* C6: for every assignment of statuses the progress shown lies in 0..100,
\* and marking one more step Completed never gives a smaller percentage.
C6_ProgressRangeMonotone ==
    trigger # "none" =>
        /\ progress_percent \in 0..100
        /\ \A s \in StepNames :
              steps[s].status # "Completed" =>
                  compute_progress([steps EXCEPT ![s].status = "Completed"]) >= progress_percent

\* Three steps Completed, one open: the percentage shown is 75.
C6_Witness ==
    /\ trigger # "none"
    /\ Cardinality({s \in StepNames : steps[s].status = "Completed"}) = 3
    /\ progress_percent = 75

\* C7: a call of one of the four generators leaves the process-wide state
\* that later generator calls read (the NumPy generator) as it found it.
C7_GeneratorsStateless ==
    \A i \in 1..Len(rng_calls) :
        rng_calls[i].fn \in Generators => rng_calls[i].after = rng_calls[i].before

\* C8: whatever the generator state, the price table has 30 rows labelled
\* Time (its index) and Price, the liquidity table 4 rows of Metric and
\* Value, the alerts table 20 rows of Severity, Frequency, Alert Type and
\* Volume Impact, the pattern table 12 rows of Month, Score and Baseline.
C8_TableShapes ==
    views = <<"Risk Assessment">> =>
        LET shape(t, idx, cols, n) ==
                /\ t \in DOMAIN tables
                /\ tables[t].index = idx
                /\ Len(tables[t].index_values) = n
                /\ DOMAIN tables[t].data = cols
                /\ \A c \in cols : Len(tables[t].data[c]) = n
        IN  /\ shape("price_df", "Time", {"Price"}, 30)
            /\ shape("liquidity_df", "RangeIndex", {"Metric", "Value"}, 4)
            /\ shape("alerts_df", "RangeIndex",
                     {"Severity", "Frequency", "Alert Type", "Volume Impact"}, 20)
            /\ shape("pattern_df", "RangeIndex", {"Month", "Score", "Baseline"}, 12)

\* The Risk Assessment page was rendered after the generator had been used
\* by another page.
C8_Witness ==
    /\ trigger = step_btn("Risk Assessment")
    /\ views = <<"Risk Assessment">>
    /\ "pattern_df" \in DOMAIN tables

\* C9: after any pass the current step is one of the four steps, exactly
\* one view was rendered, it is the view of the current step, and the
\* header names that step.
C9_ExactlyOneView ==
    trigger # "none" =>
        /\ CURRENT \in DOMAIN session_state
        /\ session_state[CURRENT] \in StepNames
        /\ Len(views) = 1
        /\ views[1] = session_state[CURRENT]
        /\ header = views[1]

C9_Witness ==
    /\ trigger = "rerun"
    /\ views = <<"Recommendation">>
    /\ header = "Recommendation"

\* C10: in every pass exactly one timeline entry is styled active, and it
\* is the step whose view the main panel displays in the same pass.
C10_ActiveEntryIsDisplayed ==
    trigger # "none" =>
        /\ Cardinality({s \in StepNames : is_active[s]}) = 1
        /\ \A s \in StepNames : is_active[s] <=> views = <<s>>

====
